---- MODULE Spec2Model ----
(***************************************************************************)
(* The `abort` expression of the VRL compiler                              *)
(* (lib/vrl/compiler/src/expression/abort.rs): construction with its       *)
(* static checks, the type definition, scalar resolve and batch resolve.   *)
(***************************************************************************)
EXTENDS Integers, Sequences, FiniteSets

\* ------------------------------------------------------------- bounds

\* longest byte string a scalar context hands to the message expression
MaxBytes == 3
\* largest number of slots of a batch
MaxBatch == 2

\* ------------------------------------------------------ data: Option, Result

None == [some |-> FALSE]
Some(x) == [some |-> TRUE, val |-> x]

Ok(v) == [tag |-> "Ok", value |-> v]
Err(e) == [tag |-> "Err", error |-> e]
is_ok(r) == r.tag = "Ok"
is_err(r) == r.tag = "Err"

\* ------------------------------------------------------ data: spans, values

Spans == {<<0, 5>>, <<6, 20>>}

Null == [type |-> "null"]
Integer(n) == [type |-> "integer", int |-> n]
Bytes(b) == [type |-> "bytes", bytes |-> b]

\* The bytes a record can hold: 'b' (ASCII), 0xC3 (the lead byte of a two-byte
\* sequence) and 0xA9 (a continuation byte): "\xC3\xA9" is U+00E9, a lone
\* 0xC3 or a lone 0xA9 is an invalid sequence.
ByteAlphabet == {98, 195, 169}

RECURSIVE SeqsUpTo(_, _)
SeqsUpTo(S, n) ==
    IF n = 0 THEN {<<>>}
    ELSE LET shorter == SeqsUpTo(S, n - 1)
         IN  shorter \cup {Append(s, x) : s \in shorter, x \in S}

SeqsOfLen(S, n) == {s \in SeqsUpTo(S, n) : Len(s) = n}

\* "bye"
Bye == <<98, 121, 101>>

\* ------------------------------------------------------ data: runtime errors

\* ExpressionError::Abort { span, message }
AbortError(span, message) == [variant |-> "Abort", span |-> span, message |-> message]
\* an ExpressionError of another kind raised by the message expression
InnerError == [variant |-> "Error", message |-> "inner"]
\* the ValueError of a failed conversion, as an ExpressionError
ExpectedBytes(value) == [variant |-> "Error", message |-> "expected bytes", got |-> value.type]

is_abort(r) == is_err(r) /\ r.error.variant = "Abort"

\* ------------------------------------------------------ type definitions

Shapes == {"bytes", "integer", "boolean"}
Kinds == (SUBSET Shapes) \ {{}}
TypeDefs == [kind : Kinds, fallible : BOOLEAN]

\* the compile-time state (&LocalEnv, &ExternalEnv)
States == {"env0", "env1"}

is_fallible(type_def) == type_def.fallible
\* exactly the bytes (string) shape
is_bytes(type_def) == type_def.kind = {"bytes"}
never == [kind |-> {"never"}, fallible |-> FALSE]
infallible(type_def) == [type_def EXCEPT !.fallible = FALSE]

\* ------------------------------------------------------ message expressions

\* A message expression (Node<Expr>): its span, its static type definition
\* and what it evaluates to: a literal "bye", or a query that yields what the
\* record under evaluation holds.
Exprs == [span : Spans, type_def : TypeDefs, form : {"literal", "query"}]
Messages == {None} \cup {Some(e) : e \in Exprs}

ExprTypeDef(expr, state) == expr.type_def

\* expr.resolve(ctx): the record of a context is the outcome a query of it has
ExprResolve(expr, c) ==
    IF expr.form = "literal" THEN Ok(Bytes(Bye)) ELSE c

\* expr.resolve_batch(ctx): every slot receives the outcome of its own record
ExprResolveBatch(expr, recs) == [i \in DOMAIN recs |-> ExprResolve(expr, recs[i])]

\* ------------------------------------------------------ diagnostics

FallibleExpr == [name |-> "FallibleExpr"]
NonString(kind) == [name |-> "NonString", kind |-> kind]
DiagError(variant, expr_span) == [variant |-> variant, expr_span |-> expr_span]

code(error) ==
    CASE error.variant.name = "FallibleExpr" -> 631
      [] error.variant.name = "NonString" -> 300

\* ------------------------------------------------------ Abort::new

AbortNode(span, message) == [span |-> span, message |-> message]

\* CheckMessage with the two tests in the other order: the shape is tested first
CheckMessageShapeFirst(expr, state) ==
    LET expr_span == expr.span
        type_def == ExprTypeDef(expr, state)
    IN  IF ~is_bytes(type_def)
        THEN Err(DiagError(NonString(type_def.kind), expr_span))
        ELSE IF is_fallible(type_def)
        THEN Err(DiagError(FallibleExpr, expr_span))
        ELSE Ok(expr)

\* CheckMessage without the shape test: any infallible expression is accepted
CheckMessageNoShapeTest(expr, state) ==
    LET expr_span == expr.span
        type_def == ExprTypeDef(expr, state)
    IN  IF is_fallible(type_def)
        THEN Err(DiagError(FallibleExpr, expr_span))
        ELSE Ok(expr)

\* CheckMessage accepting every shape set that contains bytes
CheckMessageContainsBytes(expr, state) ==
    LET expr_span == expr.span
        type_def == ExprTypeDef(expr, state)
    IN  IF is_fallible(type_def)
        THEN Err(DiagError(FallibleExpr, expr_span))
        ELSE IF ~("bytes" \in type_def.kind)
        THEN Err(DiagError(NonString(type_def.kind), expr_span))
        ELSE Ok(expr)

\* the closure mapped over the message: Result<Box<Expr>, Error>
CheckMessage(expr, state) ==
    LET expr_span == expr.span
        type_def == ExprTypeDef(expr, state)
    IN  IF is_fallible(type_def)
        THEN Err(DiagError(FallibleExpr, expr_span))
        ELSE IF ~is_bytes(type_def)
        THEN Err(DiagError(NonString(type_def.kind), expr_span))
        ELSE Ok(expr)

AbortNew(span, message, state) ==
    IF message.some
    THEN LET checked == CheckMessage(message.val, state)
         IN  IF is_err(checked)
             THEN checked
             ELSE Ok(AbortNode(span, Some(checked.value)))
    ELSE Ok(AbortNode(span, None))

\* ------------------------------------------------------ Abort::type_def

\* type_def answering with the type definition of the message expression
type_def_of_message(node, state) ==
    IF node.message.some THEN ExprTypeDef(node.message.val, state) ELSE infallible(never)

type_def(node, state) == infallible(never)

\* ------------------------------------------------------ string conversion

\* String::from_utf8_lossy on the one- and two-byte sequences of ByteAlphabet:
\* an ASCII byte is its own character, a lead byte 0xC2..0xDF followed by a
\* continuation byte 0x80..0xBF is one character, and any other byte is
\* replaced by U+FFFD. A string is the sequence of its code points.
RECURSIVE Utf8Lossy(_)
Utf8Lossy(bytes) ==
    IF bytes = <<>> THEN <<>>
    ELSE LET b == Head(bytes)
             rest == Tail(bytes)
         IN  IF b < 128
             THEN <<b>> \o Utf8Lossy(rest)
             ELSE IF /\ b >= 194 /\ b <= 223
                     /\ rest # <<>>
                     /\ Head(rest) >= 128 /\ Head(rest) <= 191
             THEN <<(b - 192) * 64 + (Head(rest) - 128)>> \o Utf8Lossy(Tail(rest))
             ELSE <<65533>> \o Utf8Lossy(rest)

\* VrlValueConvert::try_bytes_utf8_lossy: only a bytes value converts
try_bytes_utf8_lossy(value) ==
    IF value.type = "bytes"
    THEN Ok(Utf8Lossy(value.bytes))
    ELSE Err(ExpectedBytes(value))

\* ------------------------------------------------------ Abort::resolve

\* resolve turning a failure of the message into a message-less Abort
resolve_folding(node, c) ==
    IF node.message.some
    THEN LET resolved == ExprResolve(node.message.val, c)
         IN  IF is_err(resolved)
             THEN Err(AbortError(node.span, None))
             ELSE LET s == try_bytes_utf8_lossy(resolved.value)
                  IN  IF is_err(s)
                      THEN Err(AbortError(node.span, None))
                      ELSE Err(AbortError(node.span, Some(s.value)))
    ELSE Err(AbortError(node.span, None))

\* resolve taking the bytes of the value as the string, unconverted
resolve_unconverted(node, c) ==
    IF node.message.some
    THEN LET resolved == ExprResolve(node.message.val, c)
         IN  IF is_err(resolved)
             THEN resolved
             ELSE IF resolved.value.type = "bytes"
             THEN Err(AbortError(node.span, Some(resolved.value.bytes)))
             ELSE Err(ExpectedBytes(resolved.value))
    ELSE Err(AbortError(node.span, None))

resolve(node, c) ==
    IF node.message.some
    THEN LET resolved == ExprResolve(node.message.val, c)
         IN  IF is_err(resolved)
             THEN resolved
             ELSE LET s == try_bytes_utf8_lossy(resolved.value)
                  IN  IF is_err(s)
                      THEN s
                      ELSE Err(AbortError(node.span, Some(s.value)))
    ELSE Err(AbortError(node.span, None))

\* ------------------------------------------------------ Abort::resolve_batch

\* SwapOut moving out the first slot whatever slot the iterator is at
SwapOutFirst(resolved_values, i) ==
    [values |-> [resolved_values EXCEPT ![i] = Ok(Null)],
     moved |-> resolved_values[1]]

\* the slot is moved out and the placeholder Ok(Value::Null) left in its place
SwapOut(resolved_values, i) ==
    [values |-> [resolved_values EXCEPT ![i] = Ok(Null)],
     moved |-> resolved_values[i]]

\* MessageOf taking the bytes of the value as the string, unconverted
MessageOfUnconverted(resolved) ==
    IF is_err(resolved)
    THEN resolved
    ELSE IF resolved.value.type = "bytes"
    THEN Ok(Some(resolved.value.bytes))
    ELSE Err(ExpectedBytes(resolved.value))

\* the closure computing one slot's message: Result<Option<String>, ExpressionError>
MessageOf(resolved) ==
    IF is_err(resolved)
    THEN resolved
    ELSE LET s == try_bytes_utf8_lossy(resolved.value)
         IN  IF is_err(s) THEN s ELSE Ok(Some(s.value))

\* WriteBack turning a failed message into a message-less Abort
WriteBackFolding(span, message) ==
    IF is_err(message)
    THEN Err(AbortError(span, None))
    ELSE Err(AbortError(span, message.value))

\* WriteBack writing an Abort only for a computed message: a slot whose
\* message failed keeps the placeholder
WriteBackSkipsFailed(span, message) ==
    IF is_err(message)
    THEN Ok(Null)
    ELSE Err(AbortError(span, message.value))

\* message.and_then(|message| Err(ExpressionError::Abort { span, message }))
WriteBack(span, message) ==
    IF is_err(message)
    THEN message
    ELSE Err(AbortError(span, message.value))

\* the whole of resolve_batch as a function of the slots and the records
resolve_batch(node, resolved_values, recs) ==
    LET slots == DOMAIN resolved_values
        evaluated == IF node.message.some
                     THEN ExprResolveBatch(node.message.val, recs)
                     ELSE resolved_values
        collected == IF node.message.some
                     THEN [i \in slots |-> MessageOf(SwapOut(evaluated, i).moved)]
                     ELSE [i \in slots |-> Ok(None)]
    IN  [i \in slots |-> WriteBack(node.span, collected[i])]

\* ------------------------------------------------------ state

VARIABLES
    pc,         \* "start", "built" (Abort::new returned a node), "rejected"
    args,       \* the arguments Abort::new was called with
    newResult,  \* what Abort::new returned
    tdResult,   \* what the last type_def query returned
    ctx,        \* the context of the last scalar resolve
    result,     \* what the last scalar resolve returned
    records,    \* the records of the batch, one per slot
    priors,     \* the outcomes the slots held when resolve_batch was called
    batch,      \* ctx.resolved_values of the BatchContext
    messages,   \* the messages collected so far
    bpc,        \* position in resolve_batch: "idle", "collect", "write", "done"
    bi,         \* the slot the running loop is at
    taken,      \* per slot, how often it was moved out
    written     \* per slot, how often the final loop wrote it

vars == <<pc, args, newResult, tdResult, ctx, result, records, priors, batch,
          messages, bpc, bi, taken, written>>

scalarVars == <<ctx, result>>
batchVars == <<records, priors, batch, messages, bpc, bi, taken, written>>

Nothing == [tag |-> "Nothing"]

\* the node Abort::new returned
Node == newResult.value

\* the contexts of scalar resolve
Contexts ==
    {Ok(Bytes(b)) : b \in SeqsUpTo(ByteAlphabet, MaxBytes)}
        \cup {Ok(Integer(1)), Ok(Null), Err(InnerError)}

\* the records of a batch: "bye", an invalid byte string, a non-string, a failure
BatchRecords == {Ok(Bytes(Bye)), Ok(Bytes(<<98, 195>>)), Ok(Integer(1)), Err(InnerError)}

\* what a slot can hold when resolve_batch is called
PriorError == [variant |-> "Error", message |-> "prior"]
PriorOutcomes == {Ok(Null), Err(PriorError)}

Init ==
    /\ pc = "start"
    /\ args = Nothing
    /\ newResult = Nothing
    /\ tdResult = Nothing
    /\ ctx = Nothing
    /\ result = Nothing
    /\ records = <<>>
    /\ priors = <<>>
    /\ batch = <<>>
    /\ messages = <<>>
    /\ bpc = "idle"
    /\ bi = 1
    /\ taken = <<>>
    /\ written = <<>>

\* ------------------------------------------------------ actions

New(span, message, state) ==
    /\ pc = "start"
    /\ args' = [span |-> span, message |-> message, state |-> state]
    /\ newResult' = AbortNew(span, message, state)
    /\ pc' = IF is_ok(newResult') THEN "built" ELSE "rejected"
    /\ UNCHANGED <<tdResult, scalarVars, batchVars>>

TypeDefQuery(state) ==
    /\ pc = "built"
    /\ tdResult' = [state |-> state, type_def |-> type_def(Node, state)]
    /\ UNCHANGED <<pc, args, newResult, scalarVars, batchVars>>

Resolve(c) ==
    /\ pc = "built"
    /\ ctx' = c
    /\ result' = resolve(Node, c)
    /\ UNCHANGED <<pc, args, newResult, tdResult, batchVars>>

\* resolve_batch is entered: with a message expression, it is evaluated on the
\* whole batch and the collecting pass starts; without one, the messages are
\* all Ok(None) and the slots are left as they are until the final loop.
BatchBegin(recs, prior) ==
    /\ pc = "built"
    /\ bpc = "idle"
    /\ Len(recs) = Len(prior)
    /\ records' = recs
    /\ priors' = prior
    /\ taken' = [i \in DOMAIN prior |-> 0]
    /\ written' = [i \in DOMAIN prior |-> 0]
    /\ bi' = 1
    /\ IF Node.message.some
       THEN /\ batch' = ExprResolveBatch(Node.message.val, recs)
            /\ messages' = <<>>
            /\ bpc' = "collect"
       ELSE /\ batch' = prior
            /\ messages' = [i \in DOMAIN prior |-> Ok(None)]
            /\ bpc' = "write"
    /\ UNCHANGED <<pc, args, newResult, tdResult, scalarVars>>

\* one step of the collecting pass: slot bi is moved out and its message computed
CollectStep ==
    /\ bpc = "collect"
    /\ bi <= Len(batch)
    /\ LET swapped == SwapOut(batch, bi)
       IN  /\ batch' = swapped.values
           /\ messages' = Append(messages, MessageOf(swapped.moved))
    /\ taken' = [taken EXCEPT ![bi] = @ + 1]
    /\ bi' = bi + 1
    /\ UNCHANGED <<pc, args, newResult, tdResult, scalarVars, records, priors, bpc, written>>

\* the collecting pass has visited every slot
CollectEnd ==
    /\ bpc = "collect"
    /\ bi > Len(batch)
    /\ bpc' = "write"
    /\ bi' = 1
    /\ UNCHANGED <<pc, args, newResult, tdResult, scalarVars, records, priors, batch,
                   messages, taken, written>>

\* one step of the final loop over the slots zipped with the messages
WriteStep ==
    /\ bpc = "write"
    /\ bi <= Len(batch)
    /\ bi <= Len(messages)
    /\ batch' = [batch EXCEPT ![bi] = WriteBack(Node.span, messages[bi])]
    /\ written' = [written EXCEPT ![bi] = @ + 1]
    /\ bi' = bi + 1
    /\ UNCHANGED <<pc, args, newResult, tdResult, scalarVars, records, priors, messages,
                   bpc, taken>>

\* the zip is exhausted: resolve_batch returns
WriteEnd ==
    /\ bpc = "write"
    /\ (bi > Len(batch) \/ bi > Len(messages))
    /\ bpc' = "done"
    /\ UNCHANGED <<pc, args, newResult, tdResult, scalarVars, records, priors, batch,
                   messages, bi, taken, written>>

\* ------------------------------------------------------ specifications

Batches(n) == SeqsOfLen(BatchRecords, n) \X SeqsOfLen(PriorOutcomes, n)

Construct == \E span \in Spans, message \in Messages, state \in States : New(span, message, state)
QueryTypeDef == \E state \in States : TypeDefQuery(state)
ResolveScalar == \E c \in Contexts : Resolve(c)
BeginBatch == \E n \in 0..MaxBatch : \E b \in Batches(n) : BatchBegin(b[1], b[2])

\* construction and the type definition
NextNew == Construct \/ QueryTypeDef
SpecNew == Init /\ [][NextNew]_vars

\* construction and scalar resolve
NextScalar == Construct \/ ResolveScalar
SpecScalar == Init /\ [][NextScalar]_vars

\* construction and batch resolve
NextBatch == Construct \/ BeginBatch \/ CollectStep \/ CollectEnd \/ WriteStep \/ WriteEnd
SpecBatch == Init /\ [][NextBatch]_vars

\* ------------------------------------------------------ construction claims

Constructed == pc # "start"
HasMessage == Constructed /\ args.message.some
\* the static type definition of the message expression handed to Abort::new
MessageTypeDef == ExprTypeDef(args.message.val, args.state)

\* C4: a message expression whose type_def is fallible makes Abort::new fail
\* with the FallibleExpr diagnostic (code 631) at the message expression's
\* span, and no node is constructed.
C4_FallibleRejected ==
    (HasMessage /\ is_fallible(MessageTypeDef)) =>
        /\ pc = "rejected"
        /\ newResult = Err(DiagError(FallibleExpr, args.message.val.span))
        /\ code(newResult.error) = 631

\* a fallible message expression that also is no string was handed to Abort::new
C4_Witness ==
    /\ HasMessage
    /\ is_fallible(MessageTypeDef)
    /\ MessageTypeDef.kind = {"integer"}
    /\ pc = "rejected"

\* C5 as stated: a message expression whose shape set excludes string,
\* whatever its fallibility flag, makes Abort::new fail with NonString (code
\* 300) carrying that shape, and no node is constructed.
C5_AsStated ==
    (HasMessage /\ ~("bytes" \in MessageTypeDef.kind)) =>
        /\ pc = "rejected"
        /\ newResult = Err(DiagError(NonString(MessageTypeDef.kind), args.message.val.span))
        /\ code(newResult.error) = 300

\* C5 amended: an infallible message expression whose shape set excludes
\* string makes Abort::new fail with NonString (code 300) carrying that shape,
\* at the message expression's span, and no node is constructed; a fallible
\* one is rejected as well, with FallibleExpr (code 631).
C5_NonStringRejected ==
    (HasMessage /\ ~("bytes" \in MessageTypeDef.kind)) =>
        /\ pc = "rejected"
        /\ IF is_fallible(MessageTypeDef)
           THEN /\ newResult.error.variant = FallibleExpr
                /\ code(newResult.error) = 631
           ELSE /\ newResult = Err(DiagError(NonString(MessageTypeDef.kind),
                                             args.message.val.span))
                /\ code(newResult.error) = 300

\* an infallible integer-or-boolean message expression was rejected
C5_Witness ==
    /\ HasMessage
    /\ ~is_fallible(MessageTypeDef)
    /\ MessageTypeDef.kind = {"integer", "boolean"}
    /\ pc = "rejected"
    /\ newResult.error.variant = NonString({"integer", "boolean"})

\* C6: the type_def of a constructed node is the shape "never" with the
\* fallibility flag cleared, for every state passed in and whatever the
\* message expression's type_def is, so every query returns the same.
C6_TypeDefNever ==
    pc = "built" =>
        /\ \A state \in States : type_def(Node, state) = [kind |-> {"never"}, fallible |-> FALSE]
        /\ tdResult # Nothing => tdResult.type_def = [kind |-> {"never"}, fallible |-> FALSE]

\* the type_def of a node with a message was queried in a state other than
\* the one it was built in
C6_Witness ==
    /\ pc = "built"
    /\ Node.message.some
    /\ tdResult # Nothing
    /\ tdResult.state # args.state
    /\ tdResult.type_def.kind = {"never"}

\* C10: Abort::new returns a node exactly when the message is absent or its
\* type_def is infallible and exactly the string shape; without a message the
\* node stores none; an infallible message whose shapes are string and
\* another is rejected with NonString; an accepted message expression is
\* stored in the node with the given span.
C10_NewAccepts ==
    Constructed =>
        /\ is_ok(newResult) <=>
              \/ ~args.message.some
              \/ (~is_fallible(MessageTypeDef) /\ MessageTypeDef.kind = {"bytes"})
        /\ (pc = "built") <=> is_ok(newResult)
        /\ ~args.message.some => newResult = Ok(AbortNode(args.span, None))
        /\ ( /\ args.message.some
             /\ ~is_fallible(MessageTypeDef)
             /\ "bytes" \in MessageTypeDef.kind
             /\ MessageTypeDef.kind # {"bytes"} ) =>
               /\ is_err(newResult)
               /\ newResult.error.variant = NonString(MessageTypeDef.kind)
        /\ is_ok(newResult) => newResult.value = AbortNode(args.span, args.message)

\* an infallible message of shape string-or-integer was rejected
C10_Witness ==
    /\ HasMessage
    /\ ~is_fallible(MessageTypeDef)
    /\ MessageTypeDef.kind = {"bytes", "integer"}
    /\ pc = "rejected"

\* ------------------------------------------------------ scalar claims

Resolved == pc = "built" /\ result # Nothing
\* what the message expression of the node evaluates to on the context
MessageOutcome == ExprResolve(Node.message.val, ctx)
\* evaluating the message expression, or converting its value, reports an error
InnerFailure ==
    /\ Node.message.some
    /\ (is_err(MessageOutcome) \/ MessageOutcome.value.type # "bytes")

C8_MessageDetermined ==
    Resolved =>
        /\ ~is_ok(result)
        /\ ~Node.message.some => result = Err(AbortError(Node.span, None))
        /\ (Node.message.some /\ is_ok(MessageOutcome) /\ MessageOutcome.value.type = "bytes") =>
              result = Err(AbortError(Node.span, Some(Utf8Lossy(MessageOutcome.value.bytes))))
        /\ (Node.message.some /\ Node.message.val.form = "literal") =>
              result = Err(AbortError(Node.span, Some(<<98, 121, 101>>)))

\* the message evaluated to the bytes 0xC3 0xA9 0xA9: the message is U+00E9
\* and one replacement character
C8_Witness ==
    /\ Resolved
    /\ Node.message.some
    /\ ctx = Ok(Bytes(<<195, 169, 169>>))
    /\ Node.message.val.form = "query"
    /\ result = Err(AbortError(Node.span, Some(<<233, 65533>>)))

\* ------------------------------------------------------ batch claims

BatchDone == pc = "built" /\ bpc = "done"
Slots == DOMAIN priors
\* what the message expression of the node evaluates to on the record of slot i
SlotOutcome(i) == ExprResolve(Node.message.val, records[i])
\* the message computation of slot i reports an error
SlotFailure(i) ==
    /\ Node.message.some
    /\ (is_err(SlotOutcome(i)) \/ SlotOutcome(i).value.type # "bytes")

C3_BatchAgreesWithScalar ==
    BatchDone =>
        /\ Len(batch) = Len(records)
        /\ \A i \in DOMAIN batch : batch[i] = resolve(Node, records[i])

\* a batch whose first record holds a non-string and whose second holds "bye"
C3_Witness ==
    /\ BatchDone
    /\ Node.message.some
    /\ Node.message.val.form = "query"
    /\ Len(batch) = 2
    /\ records[1] = Ok(Integer(1))
    /\ records[2] = Ok(Bytes(Bye))
    /\ ~is_abort(batch[1])
    /\ is_abort(batch[2])

\* C7: resolve_batch keeps the number of slots, and the outcome of slot i
\* depends on slot i alone: every batch of the same length that agrees with
\* this one on slot i (its record and the outcome it held) gets the same
\* outcome in slot i, whatever its other slots hold.
C7_SlotIndependence ==
    /\ Len(batch) = Len(priors)
    /\ Len(records) = Len(priors)
    /\ BatchDone =>
          \A other \in Batches(Len(priors)) :
             \A i \in Slots :
                (other[1][i] = records[i] /\ other[2][i] = priors[i]) =>
                    resolve_batch(Node, other[2], other[1])[i] = batch[i]

\* a batch whose first slot failed and whose second slot aborted with its
\* message: the failure of the first did not reach the second
C7_Witness ==
    /\ BatchDone
    /\ Node.message.some
    /\ Len(batch) = 2
    /\ records[1] = Ok(Integer(1))
    /\ priors[1] = Err(PriorError)
    /\ records[2] = Ok(Bytes(Bye))
    /\ batch[2] = Err(AbortError(Node.span, Some(Bye)))

\* C9: no slot is moved out or written by the final loop more than once;
\* when resolve_batch has returned, every slot was written by the final loop
\* exactly once, the slots that were moved out (all of them with a message
\* expression, none without) included, and no slot holds the placeholder or
\* another success value.
C9_PlaceholderGone ==
    /\ \A i \in DOMAIN taken : taken[i] <= 1 /\ written[i] <= 1
    /\ BatchDone =>
          \A i \in Slots :
             /\ taken[i] = (IF Node.message.some THEN 1 ELSE 0)
             /\ written[i] = 1
             /\ ~is_ok(batch[i])

\* a slot whose message failed was moved out, written back once, and holds
\* no placeholder
C9_Witness ==
    /\ BatchDone
    /\ Node.message.some
    /\ Len(batch) = 2
    /\ records[2] = Err(InnerError)
    /\ taken[2] = 1
    /\ written[2] = 1
    /\ batch[2] # Ok(Null)

====
